---- MODULE Spec2Model ----
(***************************************************************************)
(* nostr-types: the delegation conditions codec, the delegation signature  *)
(* protocol and the nprofile (bech32 + TLV) codec.                         *)
(*                                                                         *)
(* A text is a sequence of one-character strings, a byte buffer a sequence *)
(* of 0..255.  A 64-bit integer is kept as its sign and its decimal        *)
(* magnitude (a sequence of digits without leading zeros), so the limits   *)
(* of u64 and i64 are the real ones.                                       *)
(***************************************************************************)
EXTENDS Integers, Sequences, FiniteSets, TLC

VARIABLES
    comp,      \* what the caller exercises: "serialize", "parse", "sign", "encode", "decode"
    cond,      \* a DelegationConditions value
    s,         \* the conditions string handed to try_from_str
    sFrom,     \* where s came from: "none", "input", "as_string", "inserted", "removed"
    out,       \* result of try_from_str(s), Pending before the call
    prev,      \* result of try_from_str on the string before the last edit
    edited,    \* whether the caller has edited s since it was first parsed
    signer,    \* the private key generate_signature was called with (0: not called)
    grantee,   \* the key whose hex form generate_signature was called with
    sig,       \* result of generate_signature
    vD,        \* the key passed to verify_signature as pubkey_delegater
    vE,        \* the key passed to verify_signature as pubkey_delegatee
    verdict,   \* result of verify_signature
    profile,   \* a Profile value
    text,      \* the bech32 text handed to try_from_bech32_string
    textFrom,  \* where text came from: "none", "input", "as_bech32_string", "dangling"
    pc,        \* try_from_bech32_string: "idle", "call", "loop", "done"
    tlv,       \* its local tlv: None until from_base32 has produced it
    pubkey,    \* its local pubkey
    relays,    \* its local relays
    pos,       \* its local pos
    result,    \* what the call ended with: Ok(profile), Err(error) or Panic
    base       \* the call before a byte was appended to its buffer: None, or its
               \* result and the bytes it left past the cursor

codecVars == <<cond, s, sFrom, out, prev, edited>>
signVars == <<signer, grantee, sig, vD, vE, verdict>>
profileVars == <<profile, text, textFrom, pc, tlv, pubkey, relays, pos, result, base>>
vars == <<comp, cond, s, sFrom, out, prev, edited, signer, grantee, sig, vD, vE, verdict,
          profile, text, textFrom, pc, tlv, pubkey, relays, pos, result, base>>

\* ---------------------------------------------------------------- values

None == [some |-> FALSE]
Some(v) == [some |-> TRUE, v |-> v]

Pending == [tag |-> "Pending"]
Ok(v) == [tag |-> "Ok", v |-> v]
Err(e) == [tag |-> "Err", e |-> e]

\* Error::ParseInt(std::num::ParseIntError): the payload is the error's kind
ParseIntError(kind) == [variant |-> "ParseInt", kind |-> kind]

\* ------------------------------------------------------------ characters

DigitChars == <<"0","1","2","3","4","5","6","7","8","9">>

\* char::to_digit(10)
IsDigit(c) == \E i \in 1..Len(DigitChars) : DigitChars[i] = c
DigitVal(c) == (CHOOSE i \in 1..Len(DigitChars) : DigitChars[i] = c) - 1

\* ---------------------------------------------------------- 64-bit numbers

Num(neg, mag) == [neg |-> neg, mag |-> mag]
Zero == <<0>>

\* u64::MAX, i64::MAX and |i64::MIN| in decimal
U64MaxMag == <<1,8,4,4,6,7,4,4,0,7,3,7,0,9,5,5,1,6,1,5>>
I64MaxMag == <<9,2,2,3,3,7,2,0,3,6,8,5,4,7,7,5,8,0,7>>
I64MinMag == <<9,2,2,3,3,7,2,0,3,6,8,5,4,7,7,5,8,0,8>>

\* a <= b for magnitudes without leading zeros
MagLE(a, b) ==
    \/ Len(a) < Len(b)
    \/ /\ Len(a) = Len(b)
       /\ \/ a = b
          \/ \E i \in 1..Len(a) :
                /\ a[i] < b[i]
                /\ \A j \in 1..(i - 1) : a[j] = b[j]

\* result * 10 + d
MagPush(mag, d) == IF mag = Zero THEN <<d>> ELSE Append(mag, d)

\* the digit loop of from_str_radix: InvalidDigit at the first non-digit,
\* overflow when checked_mul / checked_add (checked_sub) leaves the type
RECURSIVE ParseDigits(_, _, _, _, _)
ParseDigits(digits, i, mag, limit, overflow) ==
    IF i > Len(digits) THEN Ok(mag)
    ELSE IF ~IsDigit(digits[i]) THEN Err("InvalidDigit")
    ELSE LET m == MagPush(mag, DigitVal(digits[i]))
         IN  IF ~MagLE(m, limit) THEN Err(overflow)
             ELSE ParseDigits(digits, i + 1, m, limit, overflow)

\* str::parse::<u64>() / str::parse::<i64>()
ParseInt(src, signed) ==
    IF Len(src) = 0 THEN Err("Empty")
    ELSE IF Len(src) = 1 /\ src[1] \in {"+", "-"} THEN Err("InvalidDigit")
    ELSE LET neg    == signed /\ src[1] = "-"
             digits == IF src[1] = "+" \/ neg THEN Tail(src) ELSE src
             limit  == IF ~signed THEN U64MaxMag
                       ELSE IF neg THEN I64MinMag ELSE I64MaxMag
             r      == ParseDigits(digits, 1, Zero, limit,
                                   IF neg THEN "NegOverflow" ELSE "PosOverflow")
         IN  IF r.tag = "Err" THEN r
             ELSE Ok(Num(neg /\ r.v # Zero, r.v))

ParseU64(src) == ParseInt(src, FALSE)
ParseI64(src) == ParseInt(src, TRUE)

\* Display for u64 / i64
FmtInt(n) ==
    (IF n.neg THEN <<"-">> ELSE <<>>) \o [i \in 1..Len(n.mag) |-> DigitChars[n.mag[i] + 1]]

\* u64::from(EventKind) and EventKind::from(u64): the event kind is its number
EventKindToU64(kind) == kind
EventKindFromU64(n) == n

\* ------------------------------------------------------------------ texts

KindPrefix == <<"k","i","n","d","=">>
AfterPrefix == <<"c","r","e","a","t","e","d","_","a","t",">">>
BeforePrefix == <<"c","r","e","a","t","e","d","_","a","t","<">>
Amp == "&"

\* [String]::join(sep)
RECURSIVE Join(_, _)
Join(parts, sep) ==
    IF Len(parts) = 0 THEN <<>>
    ELSE IF Len(parts) = 1 THEN parts[1]
    ELSE parts[1] \o <<sep>> \o Join(Tail(parts), sep)

\* str::split(sep), collected
RECURSIVE SplitFrom(_, _, _, _)
SplitFrom(str, sep, i, cur) ==
    IF i > Len(str) THEN <<cur>>
    ELSE IF str[i] = sep THEN <<cur>> \o SplitFrom(str, sep, i + 1, <<>>)
    ELSE SplitFrom(str, sep, i + 1, Append(cur, str[i]))

Split(str, sep) == SplitFrom(str, sep, 1, <<>>)

\* str::strip_prefix
HasPrefix(str, p) == Len(str) >= Len(p) /\ SubSeq(str, 1, Len(p)) = p
StripPrefix(str, p) ==
    IF HasPrefix(str, p) THEN Some(SubSeq(str, Len(p) + 1, Len(str))) ELSE None

\* ------------------------------------------------- DelegationConditions

Conditions(kind, after, before) ==
    [kind |-> kind, created_after |-> after, created_before |-> before]

DefaultConditions == Conditions(None, None, None)

\* as_string with the two timestamp parts pushed in the other order
as_string_before_first(c) ==
    Join((IF c.kind.some
            THEN <<KindPrefix \o FmtInt(EventKindToU64(c.kind.v))>> ELSE <<>>)
         \o (IF c.created_before.some
               THEN <<BeforePrefix \o FmtInt(c.created_before.v)>> ELSE <<>>)
         \o (IF c.created_after.some
               THEN <<AfterPrefix \o FmtInt(c.created_after.v)>> ELSE <<>>),
         Amp)

\* as_string that formats the magnitude of a timestamp only
as_string_abs(c) ==
    Join((IF c.kind.some
            THEN <<KindPrefix \o FmtInt(EventKindToU64(c.kind.v))>> ELSE <<>>)
         \o (IF c.created_after.some
               THEN <<AfterPrefix \o FmtInt(Num(FALSE, c.created_after.v.mag))>> ELSE <<>>)
         \o (IF c.created_before.some
               THEN <<BeforePrefix \o FmtInt(Num(FALSE, c.created_before.v.mag))>> ELSE <<>>),
         Amp)

as_string(c) ==
    LET p1 == IF c.kind.some
                THEN <<KindPrefix \o FmtInt(EventKindToU64(c.kind.v))>> ELSE <<>>
        p2 == IF c.created_after.some
                THEN Append(p1, AfterPrefix \o FmtInt(c.created_after.v)) ELSE p1
        p3 == IF c.created_before.some
                THEN Append(p2, BeforePrefix \o FmtInt(c.created_before.v)) ELSE p2
    IN  Join(p3, Amp)

\* one pass of the loop body over a part; r is Ok(output) or the error returned
IfKind(r, part) ==
    LET kindstr == StripPrefix(part, KindPrefix)
    IN  IF r.tag = "Err" \/ ~kindstr.some THEN r
        ELSE LET n == ParseU64(kindstr.v)
             IN  IF n.tag = "Err" THEN Err(ParseIntError(n.e))
                 ELSE Ok([r.v EXCEPT !.kind = Some(EventKindFromU64(n.v))])

IfCreatedAfter(r, part) ==
    LET timestr == StripPrefix(part, AfterPrefix)
    IN  IF r.tag = "Err" \/ ~timestr.some THEN r
        ELSE LET n == ParseI64(timestr.v)
             IN  IF n.tag = "Err" THEN Err(ParseIntError(n.e))
                 ELSE Ok([r.v EXCEPT !.created_after = Some(n.v)])

IfCreatedBefore(r, part) ==
    LET timestr == StripPrefix(part, BeforePrefix)
    IN  IF r.tag = "Err" \/ ~timestr.some THEN r
        ELSE LET n == ParseI64(timestr.v)
             IN  IF n.tag = "Err" THEN Err(ParseIntError(n.e))
                 ELSE Ok([r.v EXCEPT !.created_before = Some(n.v)])

\* a loop body that rejects a part matching none of the prefixes
LoopBodyStrict(r, part) ==
    IF r.tag = "Ok" /\ ~HasPrefix(part, KindPrefix) /\ ~HasPrefix(part, AfterPrefix)
                    /\ ~HasPrefix(part, BeforePrefix)
    THEN Err([variant |-> "UnknownPart"])
    ELSE IfCreatedBefore(IfCreatedAfter(IfKind(r, part), part), part)

\* a loop body that leaves the field absent when its number does not parse
LoopBodyLenient(r, part) ==
    LET n == IfCreatedBefore(IfCreatedAfter(IfKind(r, part), part), part)
    IN  IF n.tag = "Err" THEN r ELSE n

LoopBody(r, part) == IfCreatedBefore(IfCreatedAfter(IfKind(r, part), part), part)

RECURSIVE ForParts(_, _, _)
ForParts(parts, i, r) ==
    IF i > Len(parts) \/ r.tag = "Err" THEN r
    ELSE ForParts(parts, i + 1, LoopBody(r, parts[i]))

try_from_str(str) == ForParts(Split(str, Amp), 1, Ok(DefaultConditions))

\* ------------------------------------------------ signature protocol

\* public keys of the source's tests (delegation.rs:182, 163, 196), as bytes;
\* private key k is the one whose public_key() is Keys[k]
Keys ==
    << <<26,69,154,138,106,166,68,29,72,11,166,101,251,143,178,26,76,254,139,202,203,125,135,48,15,128,70,165,88,163,252,228>>,
       <<71,115,24,207,181,66,123,156,252,102,169,250,55,97,80,193,221,188,98,17,90,226,124,239,114,65,126,185,89,105,19,150>>,
       <<190,168,174,182,193,101,126,51,219,90,199,90,131,145,15,119,232,236,97,69,21,126,71,107,91,136,198,232,91,31,171,52>> >>

KeyIds == 1..Len(Keys)

HexChars == <<"0","1","2","3","4","5","6","7","8","9","a","b","c","d","e","f">>

\* PublicKey::as_hex_string, and the text of PublicKeyHex::from(PublicKey)
as_hex_string(bytes) ==
    [i \in 1..(2 * Len(bytes)) |->
        IF i % 2 = 1 THEN HexChars[(bytes[(i + 1) \div 2] \div 16) + 1]
                     ELSE HexChars[(bytes[i \div 2] % 16) + 1]]

\* PrivateKey::sign: an unforgeable signature is the signer's key and the
\* message it signed; the nonce is the signer's internal randomness
Sign(private_key, msg, nonce) ==
    Ok([signer |-> Keys[private_key], msg |-> msg, nonce |-> nonce])

\* PublicKey::verify
Verify(public_key, msg, signature) ==
    IF signature.signer = public_key /\ signature.msg = msg
    THEN Ok("unit") ELSE Err([variant |-> "Signature"])

DelegationPrefix == <<"n","o","s","t","r",":","d","e","l","e","g","a","t","i","o","n",":">>
Colon == ":"

\* generate_signature signing a payload without the conditions
generate_signature_no_conditions(c, pubkey_hex, private_key, nonce) ==
    Sign(private_key, DelegationPrefix \o pubkey_hex \o <<Colon>>, nonce)

generate_signature(c, pubkey_hex, private_key, nonce) ==
    LET input == DelegationPrefix \o pubkey_hex \o <<Colon>> \o as_string(c)
    IN  Sign(private_key, input, nonce)

\* verify_signature with the two keys used in each other's place
verify_signature_swapped(c, pubkey_delegater, pubkey_delegatee, signature) ==
    LET input == DelegationPrefix \o as_hex_string(pubkey_delegater)
                    \o <<Colon>> \o as_string(c)
    IN  Verify(pubkey_delegatee, input, signature)

verify_signature(c, pubkey_delegater, pubkey_delegatee, signature) ==
    LET input == DelegationPrefix \o as_hex_string(pubkey_delegatee)
                    \o <<Colon>> \o as_string(c)
    IN  Verify(pubkey_delegater, input, signature)

\* ------------------------------------------------------------- the inputs

MaxParts == 2
MaxNonce == 2

U64Max == Num(FALSE, U64MaxMag)
I64Max == Num(FALSE, I64MaxMag)
I64Min == Num(TRUE, I64MinMag)

KindChoices == {None, Some(Num(FALSE, <<1>>)), Some(Num(FALSE, <<6>>)), Some(U64Max)}
TimeChoices == {None, Some(Num(FALSE, Zero)), Some(Num(TRUE, <<5>>)),
                Some(Num(FALSE, <<1,0,0,0,0,0,0>>)), Some(Num(FALSE, <<2,0,0,0,0,0,0>>)),
                Some(I64Max), Some(I64Min)}

CondChoices ==
    {Conditions(k, a, b) : k \in KindChoices, a \in TimeChoices, b \in TimeChoices}

PartChoices ==
    <<
      <<"k","i","n","d","=","1">>,  \* kind=1
      <<"k","i","n","d","=">>,  \* kind=
      <<"k","i","n","d","=","-","1">>,  \* kind=-1
      <<"k","i","n","d","=","1","8","4","4","6","7","4","4","0","7","3","7","0","9","5","5","1","6","1","6">>,  \* kind=18446744073709551616
      <<"c","r","e","a","t","e","d","_","a","t",">","-","5">>,  \* created_at>-5
      <<"c","r","e","a","t","e","d","_","a","t",">">>,  \* created_at>
      <<"c","r","e","a","t","e","d","_","a","t",">","9","2","2","3","3","7","2","0","3","6","8","5","4","7","7","5","8","0","8">>,  \* created_at>9223372036854775808
      <<"c","r","e","a","t","e","d","_","a","t","<","+","7">>,  \* created_at<+7
      <<"c","r","e","a","t","e","d","_","a","t","<","-","9","2","2","3","3","7","2","0","3","6","8","5","4","7","7","5","8","0","9">>,  \* created_at<-9223372036854775809
      <<"c","r","e","a","t","e","d","_","a","t","<","1","x">>,  \* created_at<1x
      <<"f","o","o">>,  \* foo
      <<>>,  \* (empty part)
      <<"k","i","n","d">>  \* kind
    >>

\* the parts that match none of the three prefixes
IsIgnored(part) ==
    ~HasPrefix(part, KindPrefix) /\ ~HasPrefix(part, AfterPrefix)
        /\ ~HasPrefix(part, BeforePrefix)

IgnoredChoices == {PartChoices[i] : i \in {j \in 1..Len(PartChoices) : IsIgnored(PartChoices[j])}}

RECURSIVE PartLists(_)
PartLists(n) ==
    IF n = 0 THEN {<<>>}
    ELSE LET shorter == PartLists(n - 1)
         IN  shorter \cup {Append(l, PartChoices[i]) :
                              l \in {x \in shorter : Len(x) = n - 1},
                              i \in 1..Len(PartChoices)}

InputChoices == {Join(l, Amp) : l \in PartLists(MaxParts) \ {<<>>}}

InsertAt(seq, i, x) == SubSeq(seq, 1, i - 1) \o <<x>> \o SubSeq(seq, i, Len(seq))
RemoveAt(seq, i) == SubSeq(seq, 1, i - 1) \o SubSeq(seq, i + 1, Len(seq))

\* ---------------------------------------------------------------- bech32

Nprofile == <<"n","p","r","o","f","i","l","e">>
Npub == <<"n","p","u","b">>

\* A bech32 text is kept as what it spells: its human-readable prefix, its
\* 5-bit groups and whether its checksum is the one bech32 computes for them.
Bech32Text(hrp, data, checksum) == [hrp |-> hrp, data |-> data, checksum |-> checksum]

\* bech32::encode(hrp, data, Variant::Bech32).unwrap()
Bech32Encode(hrp, data) == Bech32Text(hrp, data, TRUE)

\* bech32::decode
Bech32Decode(tx) ==
    IF tx.checksum THEN Ok([hrp |-> tx.hrp, data |-> tx.data])
    ELSE Err([variant |-> "Bech32", kind |-> "InvalidChecksum"])

Pow2(n) == 2 ^ n

\* bit k (0 = first, most significant) of a stream of width-bit units; 0 past the end
BitAt(units, width, k) ==
    IF k \div width >= Len(units) THEN 0
    ELSE (units[(k \div width) + 1] \div Pow2(width - 1 - (k % width))) % 2

\* the value of the `to` bits that start at bit k
BitsAt(units, width, k, to) ==
    LET RECURSIVE Acc(_)
        Acc(b) == IF b = to THEN 0
                  ELSE BitAt(units, width, k + b) * Pow2(to - 1 - b) + Acc(b + 1)
    IN  Acc(0)

\* ToBase32 for Vec<u8>: convert_bits(bytes, 8, 5, pad = true)
ToBase32(bytes) ==
    [j \in 1..((8 * Len(bytes) + 4) \div 5) |-> BitsAt(bytes, 8, 5 * (j - 1), 5)]

\* FromBase32 for Vec<u8>: convert_bits(data, 5, 8, pad = false)
FromBase32(data) ==
    LET nbits == 5 * Len(data)
        rest  == nbits % 8
    IN  IF rest >= 5 \/ BitsAt(data, 5, nbits - rest, rest) # 0
        THEN Err([variant |-> "Bech32", kind |-> "InvalidPadding"])
        ELSE Ok([k \in 1..(nbits \div 8) |-> BitsAt(data, 5, 8 * (k - 1), 8)])

\* --------------------------------------------------------- keys and UTF-8

\* public keys of the source's tests (profile.rs:74, 108), as bytes
ProfileKeys ==
    << <<176,99,93,106,152,81,211,174,208,205,108,73,91,40,33,103,172,247,97,114,144,120,217,117,252,52,27,34,101,11,7,185>>,
       <<59,240,198,63,203,147,70,52,7,175,151,165,229,238,100,250,136,61,16,126,249,229,88,71,44,78,185,170,174,250,69,157>> >>

\* 32 bytes that are no x coordinate of the curve (not below the field prime)
NotAKey == [i \in 1..32 |-> 255]

\* PublicKey::from_bytes
PublicKeyFromBytes(bytes) ==
    IF \E i \in 1..Len(ProfileKeys) : ProfileKeys[i] = bytes
    THEN Ok(bytes) ELSE Err([variant |-> "Signature"])

\* PublicKey.0.to_bytes()
PublicKeyToBytes(pk) == pk

\* the length of the UTF-8 sequence a byte begins: 0 for a continuation byte
\* and for the bytes that begin none (0xC0, 0xC1, 0xF5..0xFF)
LeadLen(b) ==
    IF b < 128 THEN 1
    ELSE IF b \in 194..223 THEN 2
    ELSE IF b \in 224..239 THEN 3
    ELSE IF b \in 240..244 THEN 4
    ELSE 0

IsCont(b) == b \in 128..191

\* the range of the byte after lead byte b (no overlong form, no surrogate,
\* nothing above U+10FFFF)
SecondOk(b, c) ==
    c \in (IF b = 224 THEN 160 ELSE IF b = 240 THEN 144 ELSE 128)
          ..(IF b = 237 THEN 159 ELSE IF b = 244 THEN 143 ELSE 191)

\* the validation of std::str::from_utf8, stated byte by byte: a byte that
\* begins a sequence is followed by its continuation bytes, and a
\* continuation byte belongs to the sequence begun up to three bytes before
Utf8Valid(bytes) ==
    \A i \in 1..Len(bytes) :
        LET b == bytes[i]
        IN  IF IsCont(b)
            THEN \E k \in 1..3 :
                    /\ i - k >= 1
                    /\ LeadLen(bytes[i - k]) > k
                    /\ \A j \in 1..(k - 1) : IsCont(bytes[i - j])
            ELSE /\ LeadLen(b) >= 1
                 /\ i + LeadLen(b) - 1 <= Len(bytes)
                 /\ \A j \in 1..(LeadLen(b) - 1) : IsCont(bytes[i + j])
                 /\ LeadLen(b) >= 2 => SecondOk(b, bytes[i + 1])

FromUtf8(bytes) ==
    IF Utf8Valid(bytes) THEN Ok(bytes) ELSE Err([variant |-> "Utf8Error"])

\* ----------------------------------------------------------------- errors

InvalidProfile == [variant |-> "InvalidProfile"]
WrongBech32(f0, f1) == [variant |-> "WrongBech32", f0 |-> f0, f1 |-> f1]

\* a call that did not return: an index or slice out of bounds aborts it
Panic == [tag |-> "Panic"]

WrongBech32Head == <<"W","r","o","n","g"," ","B","e","c","h","3","2"," ","K","i","n","d",":"," ","E","x","p","e","c","t","e","d"," ">>
WrongBech32Found == <<" ","f","o","u","n","d"," ">>

\* Display of Error::WrongBech32: "Wrong Bech32 Kind: Expected {0} found {0}"
DisplayWrongBech32(e) == WrongBech32Head \o e.f0 \o WrongBech32Found \o e.f0

\* ---------------------------------------------------------------- Profile

Profile(pk, rs) == [pubkey |-> pk, relays |-> rs]

\* a length cast that saturates instead of wrapping
AsU8Saturating(n) == IF n > 255 THEN 255 ELSE n

\* relay.0.len() as u8
AsU8(n) == n % 256

RECURSIVE PushRelays(_, _, _)
PushRelays(buf, rs, i) ==
    IF i > Len(rs) THEN buf
    ELSE PushRelays(buf \o <<1, AsU8(Len(rs[i]))>> \o rs[i], rs, i + 1)

\* the relay loop writing the length after the bytes
RECURSIVE PushRelaysLenLast(_, _, _)
PushRelaysLenLast(buf, rs, i) ==
    IF i > Len(rs) THEN buf
    ELSE PushRelaysLenLast(buf \o <<1>> \o rs[i] \o <<AsU8(Len(rs[i]))>>, rs, i + 1)

as_bech32_string_len_last(p) ==
    Bech32Encode(Nprofile,
        ToBase32(PushRelaysLenLast(<<0, 32>> \o PublicKeyToBytes(p.pubkey), p.relays, 1)))

as_bech32_string(p) ==
    LET buf == PushRelays(<<0, 32>> \o PublicKeyToBytes(p.pubkey), p.relays, 1)
    IN  Bech32Encode(Nprofile, ToBase32(buf))

\* lines 39-49 of try_from_bech32_string: what the call ends with before the
\* loop (Pending when it reaches the loop), and the locals it has set by then
DecodeHead(tx) ==
    LET data == Bech32Decode(tx)
        stop(r, t) == [result |-> r, tlv |-> t, pubkey |-> <<>>]
    IN  IF data.tag = "Err" THEN stop(Err(data.e), None)
        ELSE IF data.v.hrp # Nprofile
             THEN stop(Err(WrongBech32(Nprofile, data.v.hrp)), None)
        ELSE LET b == FromBase32(data.v.data)
             IN  IF b.tag = "Err" THEN stop(Err(b.e), None)
                 ELSE LET t == b.v
                      IN  IF Len(t) < 1 THEN stop(Panic, Some(t))
                          ELSE IF t[1] # 0 THEN stop(Err(InvalidProfile), Some(t))
                          ELSE IF Len(t) < 2 THEN stop(Panic, Some(t))
                          ELSE IF t[2] # 32 THEN stop(Err(InvalidProfile), Some(t))
                          ELSE IF Len(t) < 2 + 32 THEN stop(Panic, Some(t))
                          ELSE LET k == PublicKeyFromBytes(SubSeq(t, 3, 2 + 32))
                               IN  IF k.tag = "Err" THEN stop(Err(k.e), Some(t))
                                   ELSE [result |-> Pending, tlv |-> Some(t),
                                         pubkey |-> k.v]

\* a loop body that takes a record of any type for a relay
LoopStepAnyType(t, p, rs) ==
    LET len  == t[p + 2]
        p2   == p + 2
        stop(r) == [result |-> r, pos |-> p2, relays |-> rs]
    IN  IF Len(t) < p2 + len THEN stop(Err(InvalidProfile))
        ELSE LET relay_str == FromUtf8(SubSeq(t, p2 + 1, p2 + len))
             IN  IF relay_str.tag = "Err" THEN stop(Err(relay_str.e))
                 ELSE [result |-> Pending, pos |-> p2 + len,
                       relays |-> Append(rs, relay_str.v)]

\* a loop body that moves the cursor one byte too far after a record
LoopStepAdvanceExtra(t, p, rs) ==
    LET typ  == t[p + 1]
        len  == t[p + 2]
        p2   == p + 2
        stop(r) == [result |-> r, pos |-> p2, relays |-> rs]
    IN  IF typ # 1 THEN stop(Err(InvalidProfile))
        ELSE IF Len(t) < p2 + len THEN stop(Err(InvalidProfile))
        ELSE LET relay_str == FromUtf8(SubSeq(t, p2 + 1, p2 + len))
             IN  IF relay_str.tag = "Err" THEN stop(Err(relay_str.e))
                 ELSE [result |-> Pending, pos |-> p2 + len + 1,
                       relays |-> Append(rs, relay_str.v)]

\* one pass of the loop body (lines 51-64) at cursor p with relays rs
LoopStep(t, p, rs) ==
    LET typ  == t[p + 1]
        len  == t[p + 2]
        p2   == p + 2
        stop(r) == [result |-> r, pos |-> p2, relays |-> rs]
    IN  IF typ # 1 THEN stop(Err(InvalidProfile))
        ELSE IF Len(t) < p2 + len THEN stop(Err(InvalidProfile))
        ELSE LET relay_str == FromUtf8(SubSeq(t, p2 + 1, p2 + len))
             IN  IF relay_str.tag = "Err" THEN stop(Err(relay_str.e))
                 ELSE [result |-> Pending, pos |-> p2 + len,
                       relays |-> Append(rs, relay_str.v)]

\* ------------------------------------------------------------- the inputs

MaxRelays == 2
MaxChunks == 2

Relay255 == [i \in 1..255 |-> 97]
Relay256 == [i \in 1..256 |-> 97]
\* 256 bytes of text that read as two records: (1, 127, ...) and (1, 125, ...)
Relay256Records ==
    <<1, 127>> \o [i \in 1..127 |-> 97] \o <<1, 125>> \o [i \in 1..125 |-> 97]

RelayChoices ==
    << <<>>,
       <<119,115,115,58,47,47,114,46,120,46,99,111,109>>,  \* wss://r.x.com
       <<195,169>>,                                         \* U+00E9
       Relay255,
       Relay256,
       Relay256Records >>

RECURSIVE SeqsUpTo(_, _)
SeqsUpTo(choices, n) ==
    IF n = 0 THEN {<<>>}
    ELSE LET shorter == SeqsUpTo(choices, n - 1)
         IN  shorter \cup {Append(l, choices[i]) :
                              l \in {x \in shorter : Len(x) = n - 1},
                              i \in 1..Len(choices)}

ProfileChoices ==
    {Profile(ProfileKeys[k], rs) : k \in 1..Len(ProfileKeys),
                                   rs \in SeqsUpTo(RelayChoices, MaxRelays)}

\* what a buffer may begin with
HeadChoices ==
    { <<>>, <<0>>, <<5>>, <<0, 32>>, <<0, 32>> \o SubSeq(ProfileKeys[1], 1, 31),
      <<0, 33>> \o ProfileKeys[1], <<1, 32>> \o ProfileKeys[1],
      <<0, 32>> \o ProfileKeys[1], <<0, 32>> \o NotAKey }

\* what may follow: records, well-formed or not, and a dangling byte
ChunkChoices ==
    << <<1, 0>>, <<1, 1, 97>>, <<1, 2, 195, 169>>, <<1, 1, 255>>,
       <<2, 1, 97>>, <<1, 5, 97>>, <<7>> >>

RECURSIVE Concat(_)
Concat(chunks) == IF Len(chunks) = 0 THEN <<>> ELSE chunks[1] \o Concat(Tail(chunks))

BufferChoices ==
    {h \o Concat(cs) : h \in HeadChoices, cs \in SeqsUpTo(ChunkChoices, MaxChunks)}

TextChoices ==
    {Bech32Text(Nprofile, ToBase32(b), TRUE) : b \in BufferChoices}
    \cup {Bech32Text(hrp, ToBase32(h) \o pad, ck) :
             hrp \in {Nprofile, Npub}, h \in HeadChoices,
             pad \in {<<>>, <<0>>, <<1>>}, ck \in BOOLEAN}

\* the byte appended after the last complete record
DanglingChoices == {0, 1, 7, 255}

NoProfile == Profile(<<>>, <<>>)
NoText == Bech32Text(<<>>, <<>>, FALSE)

\* ------------------------------------------------------- the state machine

IdleCodec ==
    /\ cond = DefaultConditions /\ s = <<>> /\ sFrom = "none"
    /\ out = Pending /\ prev = Pending /\ edited = FALSE
IdleSign ==
    /\ signer = 0 /\ grantee = 0 /\ sig = Pending
    /\ vD = 0 /\ vE = 0 /\ verdict = Pending
IdleProfile ==
    /\ profile = NoProfile /\ text = NoText /\ textFrom = "none" /\ pc = "idle"
    /\ tlv = None /\ pubkey = <<>> /\ relays = <<>> /\ pos = 0 /\ result = Pending
    /\ base = None

SignCondChoices == {c \in CondChoices : c.created_before \in {None, Some(I64Min)}}

Init ==
    \/ /\ comp = "serialize"
       /\ s = <<>> /\ sFrom = "none" /\ out = Pending /\ prev = Pending /\ edited = FALSE
       /\ IdleSign /\ IdleProfile
       /\ cond \in CondChoices
    \/ /\ comp = "parse"
       /\ cond = DefaultConditions /\ out = Pending /\ prev = Pending /\ edited = FALSE
       /\ IdleSign /\ IdleProfile
       /\ s \in InputChoices /\ sFrom = "input"
    \/ /\ comp = "sign"
       /\ s = <<>> /\ sFrom = "none" /\ out = Pending /\ prev = Pending /\ edited = FALSE
       /\ IdleSign /\ IdleProfile
       /\ cond \in SignCondChoices
    \/ /\ comp = "encode"
       /\ IdleCodec /\ IdleSign
       /\ text = NoText /\ textFrom = "none" /\ pc = "idle"
       /\ tlv = None /\ pubkey = <<>> /\ relays = <<>> /\ pos = 0 /\ result = Pending
       /\ base = None
       /\ profile \in ProfileChoices
    \/ /\ comp = "decode"
       /\ IdleCodec /\ IdleSign
       /\ profile = NoProfile /\ textFrom = "input" /\ pc = "call"
       /\ tlv = None /\ pubkey = <<>> /\ relays = <<>> /\ pos = 0 /\ result = Pending
       /\ base = None
       /\ text \in TextChoices

\* c.as_string()
AsString ==
    /\ comp = "serialize" /\ sFrom = "none"
    /\ s' = as_string(cond)
    /\ sFrom' = "as_string"
    /\ UNCHANGED <<comp, cond, out, prev, edited, signVars, profileVars>>

\* DelegationConditions::try_from_str(s)
TryFromStr ==
    /\ comp \in {"serialize", "parse"} /\ sFrom # "none" /\ out = Pending
    /\ out' = try_from_str(s)
    /\ UNCHANGED <<comp, cond, s, sFrom, prev, edited, signVars, profileVars>>

\* the caller puts a part that matches no prefix into the string it parsed
InsertPart(part, i) ==
    /\ comp \in {"serialize", "parse"} /\ out # Pending /\ ~edited
    /\ s' = Join(InsertAt(Split(s, Amp), i, part), Amp)
    /\ sFrom' = "inserted"
    /\ prev' = out
    /\ out' = Pending
    /\ edited' = TRUE
    /\ UNCHANGED <<comp, cond, signVars, profileVars>>

\* the caller takes such a part out of the string it parsed
RemovePart(i) ==
    /\ comp \in {"serialize", "parse"} /\ out # Pending /\ ~edited
    /\ Len(Split(s, Amp)) > 1
    /\ IsIgnored(Split(s, Amp)[i])
    /\ s' = Join(RemoveAt(Split(s, Amp), i), Amp)
    /\ sFrom' = "removed"
    /\ prev' = out
    /\ out' = Pending
    /\ edited' = TRUE
    /\ UNCHANGED <<comp, cond, signVars, profileVars>>

\* cond.generate_signature(PublicKeyHex::from(Keys[e]), private key d)
GenerateSignature(d, e, nonce) ==
    /\ comp = "sign" /\ sig = Pending
    /\ sig' = generate_signature(cond, as_hex_string(Keys[e]), d, nonce)
    /\ signer' = d
    /\ grantee' = e
    /\ UNCHANGED <<comp, codecVars, vD, vE, verdict, profileVars>>

\* cond.verify_signature(&Keys[d], &Keys[e], sig)
VerifySignature(d, e) ==
    /\ comp = "sign" /\ sig # Pending /\ verdict = Pending
    /\ verdict' = verify_signature(cond, Keys[d], Keys[e], sig.v)
    /\ vD' = d
    /\ vE' = e
    /\ UNCHANGED <<comp, codecVars, signer, grantee, sig, profileVars>>

\* profile.as_bech32_string()
AsBech32String ==
    /\ comp = "encode" /\ pc = "idle"
    /\ text' = as_bech32_string(profile)
    /\ textFrom' = "as_bech32_string"
    /\ pc' = "call"
    /\ UNCHANGED <<comp, codecVars, signVars, profile, tlv, pubkey, relays, pos, result,
                   base>>

\* try_from_bech32_string(text) up to its loop
DecodeBegin ==
    /\ pc = "call"
    /\ LET h == DecodeHead(text)
       IN  /\ tlv' = h.tlv
           /\ pubkey' = h.pubkey
           /\ result' = h.result
           /\ pc' = IF h.result = Pending THEN "loop" ELSE "done"
           /\ pos' = IF h.result = Pending THEN 2 + 32 ELSE pos
    /\ UNCHANGED <<comp, codecVars, signVars, profile, text, textFrom, relays, base>>

\* one pass of the loop: while tlv.len() >= pos + 2
DecodeRecord ==
    /\ pc = "loop"
    /\ Len(tlv.v) >= pos + 2
    /\ LET n == LoopStep(tlv.v, pos, relays)
       IN  /\ pos' = n.pos
           /\ relays' = n.relays
           /\ result' = n.result
           /\ pc' = IF n.result = Pending THEN "loop" ELSE "done"
    /\ UNCHANGED <<comp, codecVars, signVars, profile, text, textFrom, tlv, pubkey, base>>

\* the loop ends: Ok(Profile { pubkey, relays })
DecodeReturn ==
    /\ pc = "loop"
    /\ ~(Len(tlv.v) >= pos + 2)
    /\ result' = Ok(Profile(pubkey, relays))
    /\ pc' = "done"
    /\ UNCHANGED <<comp, codecVars, signVars, profile, text, textFrom, tlv, pubkey,
                   relays, pos, base>>

\* the caller appends one byte to the buffer of a text that decoded to a
\* Profile, and decodes the longer text
AppendDanglingByte(b) ==
    /\ pc = "done" /\ result.tag = "Ok" /\ base = None
    /\ text' = Bech32Encode(Nprofile, ToBase32(tlv.v \o <<b>>))
    /\ textFrom' = "dangling"
    /\ base' = Some([result |-> result, rest |-> Len(tlv.v) - pos])
    /\ pc' = "call"
    /\ tlv' = None /\ pubkey' = <<>> /\ relays' = <<>> /\ pos' = 0 /\ result' = Pending
    /\ UNCHANGED <<comp, codecVars, signVars, profile>>

Next ==
    \/ AsString
    \/ TryFromStr
    \/ \E part \in IgnoredChoices, i \in 1..(Len(Split(s, Amp)) + 1) : InsertPart(part, i)
    \/ \E i \in 1..Len(Split(s, Amp)) : RemovePart(i)
    \/ \E d \in KeyIds, e \in KeyIds, nonce \in 1..MaxNonce : GenerateSignature(d, e, nonce)
    \/ \E d \in KeyIds, e \in KeyIds : VerifySignature(d, e)
    \/ AsBech32String
    \/ DecodeBegin
    \/ DecodeRecord
    \/ DecodeReturn
    \/ \E b \in DanglingChoices : AppendDanglingByte(b)

Spec == Init /\ [][Next]_vars

\* ------------------------------------------------------------- the claims

Present(c) ==
    (IF c.kind.some THEN <<"kind">> ELSE <<>>)
    \o (IF c.created_after.some THEN <<"after">> ELSE <<>>)
    \o (IF c.created_before.some THEN <<"before">> ELSE <<>>)

\* C1: for every conditions value c, try_from_str(c.as_string()) returns Ok
\* with a value equal to c.
C1_RoundTrip ==
    (comp = "serialize" /\ sFrom = "as_string" /\ out # Pending) => out = Ok(cond)

C1_Witness ==
    /\ comp = "serialize" /\ sFrom = "as_string" /\ out = Ok(cond)
    /\ cond.kind = Some(U64Max)
    /\ cond.created_after = Some(I64Min)
    /\ cond.created_before = Some(Num(TRUE, <<5>>))

LowerHex(str) == \A i \in 1..Len(str) : \E j \in 1..Len(HexChars) : HexChars[j] = str[i]

\* C2: the signature generate_signature returns for delegatee d under the
\* delegator's private key is accepted by verify_signature called with the
\* delegator's public key and d; the signed payload is "nostr:delegation:",
\* the 64 lowercase hex digits of d, ":" and c.as_string().
C2_GenerateThenVerify ==
    /\ (comp = "sign" /\ sig # Pending) =>
          LET msg == sig.v.msg
              n   == Len(DelegationPrefix)
          IN  /\ Len(msg) >= n + 65
              /\ SubSeq(msg, 1, n) = DelegationPrefix
              /\ LowerHex(SubSeq(msg, n + 1, n + 64))
              /\ SubSeq(msg, n + 1, n + 64) = as_hex_string(Keys[grantee])
              /\ msg[n + 65] = ":"
              /\ SubSeq(msg, n + 66, Len(msg)) = as_string(cond)
    /\ (comp = "sign" /\ verdict # Pending /\ vD = signer /\ vE = grantee) =>
          verdict.tag = "Ok"

C2_Witness ==
    /\ comp = "sign" /\ verdict.tag = "Ok"
    /\ vD = signer /\ vE = grantee /\ signer # grantee
    /\ cond.kind.some /\ cond.created_after.some /\ cond.created_before.some

\* C3: a signature generated by delegator D for delegatee E, D # E, is
\* refused by verify_signature called with E as delegator and D as delegatee.
C3_SwappedKeysFail ==
    (comp = "sign" /\ verdict # Pending /\ signer # grantee
        /\ vD = grantee /\ vE = signer) => verdict.tag = "Err"

C3_Witness ==
    /\ comp = "sign" /\ verdict.tag = "Err"
    /\ signer # grantee /\ vD = grantee /\ vE = signer

TestConditions ==
    Conditions(Some(Num(FALSE, <<1>>)), Some(Num(FALSE, <<1,0,0,0,0,0,0>>)),
               Some(Num(FALSE, <<2,0,0,0,0,0,0>>)))

TestString == <<"k","i","n","d","=","1","&","c","r","e","a","t","e","d","_","a","t",">","1","0","0","0","0","0","0","&","c","r","e","a","t","e","d","_","a","t","<","2","0","0","0","0","0","0">>

\* C4: as_string is the present fields' parts, kind=<uint>, created_at><int>,
\* created_at<<int>, in that order, joined by "&": one part per present field,
\* no part and no separator for an absent one, the empty string for none.
C4_AsStringFormat ==
    sFrom = "as_string" =>
        LET fields == Present(cond)
            parts  == Split(s, Amp)
            n      == Len(fields)
        IN  /\ n <= 3
            /\ n = 0 => s = <<>>
            /\ n > 0 => Len(parts) = n
            /\ \A i \in 1..n :
                  /\ fields[i] = "kind" =>
                        parts[i] = KindPrefix \o FmtInt(cond.kind.v)
                  /\ fields[i] = "after" =>
                        parts[i] = AfterPrefix \o FmtInt(cond.created_after.v)
                  /\ fields[i] = "before" =>
                        parts[i] = BeforePrefix \o FmtInt(cond.created_before.v)
            /\ cond = TestConditions => s = TestString

C4_Witness ==
    /\ sFrom = "as_string" /\ cond = TestConditions /\ s = TestString

\* C5: for every Profile p whose relays are each at most 255 bytes,
\* try_from_bech32_string(p.as_bech32_string()) returns Ok with a Profile
\* equal to p, the relays in the same order.
C5_ProfileRoundTrip ==
    (comp = "encode" /\ pc = "done"
        /\ \A i \in 1..Len(profile.relays) : Len(profile.relays[i]) <= 255)
    => result = Ok(profile)

C5_Witness ==
    /\ comp = "encode" /\ pc = "done" /\ result = Ok(profile)
    /\ Len(profile.relays) = 2
    /\ Len(profile.relays[1]) = 255
    /\ profile.relays[2] = <<>>

\* C6: try_from_bech32_string ends, for any input, by returning a Profile or
\* a typed error; no input makes it abort.
C6_NeverAborts ==
    /\ result # Panic
    /\ pc = "done" => result.tag \in {"Ok", "Err"}

BadHead(b) == Len(b) >= 2 /\ (b[1] # 0 \/ b[2] # 32)
GoodHead(b) == Len(b) >= 2 + 32 /\ b[1] = 0 /\ b[2] = 32

\* some record from cursor p on has a type other than 1 or declares more
\* bytes than remain after its header
RECURSIVE HasBadRecord(_, _)
HasBadRecord(b, p) ==
    /\ Len(b) >= p + 2
    /\ \/ b[p + 1] # 1
       \/ Len(b) < p + 2 + b[p + 2]
       \/ HasBadRecord(b, p + 2 + b[p + 2])

\* every record before the first such record holds well-formed UTF-8
RECURSIVE CleanUntilBad(_, _)
CleanUntilBad(b, p) ==
    /\ Len(b) >= p + 2
    /\ \/ b[p + 1] # 1
       \/ Len(b) < p + 2 + b[p + 2]
       \/ /\ Utf8Valid(SubSeq(b, p + 3, p + 2 + b[p + 2]))
          /\ CleanUntilBad(b, p + 2 + b[p + 2])

KeyParses(b) == PublicKeyFromBytes(SubSeq(b, 3, 2 + 32)).tag = "Ok"

\* C7 as stated: decoding a buffer fails with InvalidProfile whenever its
\* first two bytes are not [0, 32], whenever a record after the public key
\* has a type other than 1, and whenever a record declares more bytes than
\* remain.
C7_Original ==
    (pc = "done" /\ tlv.some
        /\ (BadHead(tlv.v) \/ (GoodHead(tlv.v) /\ HasBadRecord(tlv.v, 2 + 32))))
    => result = Err(InvalidProfile)

\* C7 as amended: a buffer whose first two bytes are not [0, 32] fails with
\* InvalidProfile; a buffer with a record of another type than 1, or of a
\* declared length beyond the buffer, returns an error and no Profile, and
\* the error is InvalidProfile when the public key parses and every earlier
\* record is well-formed UTF-8, the error of that earlier failure otherwise.
C7_FirstFailureWins ==
    pc = "done" /\ tlv.some =>
        /\ BadHead(tlv.v) => result = Err(InvalidProfile)
        /\ (GoodHead(tlv.v) /\ HasBadRecord(tlv.v, 2 + 32)) =>
              /\ result.tag = "Err"
              /\ (KeyParses(tlv.v) /\ CleanUntilBad(tlv.v, 2 + 32))
                    => result = Err(InvalidProfile)
              /\ ~KeyParses(tlv.v) => result.e.variant = "Signature"
              /\ (KeyParses(tlv.v) /\ ~CleanUntilBad(tlv.v, 2 + 32))
                    => result.e.variant = "Utf8Error"

C7_Witness ==
    /\ pc = "done" /\ tlv.some /\ GoodHead(tlv.v) /\ HasBadRecord(tlv.v, 2 + 32)
    /\ result = Err(InvalidProfile)
    /\ Len(relays) >= 1

Contains(str, sub) ==
    \E i \in 1..(Len(str) - Len(sub) + 1) : SubSeq(str, i, i + Len(sub) - 1) = sub

\* C8: decoding a checksum-valid text whose prefix is not "nprofile" fails
\* with a WrongBech32 error that names the expected prefix "nprofile" and the
\* prefix found, and the TLV payload is never examined.
C8_WrongPrefixNamed ==
    (pc = "done" /\ text.checksum /\ text.hrp # Nprofile) =>
        /\ result.tag = "Err"
        /\ result.e.variant = "WrongBech32"
        /\ Contains(DisplayWrongBech32(result.e), Nprofile)
        /\ Contains(DisplayWrongBech32(result.e), text.hrp)
        /\ tlv = None

\* the failure of a part whose number does not parse: None for any other part
BadNumber(part) ==
    LET k == StripPrefix(part, KindPrefix)
        a == StripPrefix(part, AfterPrefix)
        b == StripPrefix(part, BeforePrefix)
        r == IF k.some THEN ParseU64(k.v)
             ELSE IF a.some THEN ParseI64(a.v)
             ELSE IF b.some THEN ParseI64(b.v)
             ELSE Ok(Zero)
        t == IF k.some THEN k.v ELSE IF a.some THEN a.v ELSE IF b.some THEN b.v ELSE <<>>
    IN  IF r.tag = "Err" THEN Some([kind |-> r.e, substring |-> t]) ELSE None

HasBadNumber(str) == \E i \in 1..Len(Split(str, Amp)) : BadNumber(Split(str, Amp)[i]).some

FirstBadNumber(str) ==
    LET parts == Split(str, Amp)
        i == CHOOSE j \in 1..Len(parts) :
                 /\ BadNumber(parts[j]).some
                 /\ \A k \in 1..(j - 1) : ~BadNumber(parts[k]).some
    IN  BadNumber(parts[i]).v

\* C9 as stated: when a part starts with kind=, created_at> or created_at<
\* and its remainder is no valid number, try_from_str returns a number-parse
\* error carrying the offending substring, and no conditions value.
C9_Original ==
    (sFrom # "none" /\ out # Pending /\ HasBadNumber(s)) =>
        /\ out.tag = "Err"
        /\ out.e.variant = "ParseInt"
        /\ "substring" \in DOMAIN out.e
        /\ out.e.substring = FirstBadNumber(s).substring

\* C9 as amended: in that case try_from_str returns Error::ParseInt, whose
\* payload is the kind of failure of the first such part (empty, invalid
\* digit, positive or negative overflow) and nothing else, and no
\* conditions value.
C9_ParseIntPropagated ==
    (sFrom # "none" /\ out # Pending /\ HasBadNumber(s)) =>
        /\ out.tag = "Err"
        /\ out.e.variant = "ParseInt"
        /\ DOMAIN out.e = {"variant", "kind"}
        /\ out.e.kind = FirstBadNumber(s).kind
        /\ out.e.kind \in {"Empty", "InvalidDigit", "PosOverflow", "NegOverflow"}

C9_Witness ==
    /\ comp = "parse" /\ out.tag = "Err" /\ HasBadNumber(s)
    /\ Len(Split(s, Amp)) = 2
    /\ ~BadNumber(Split(s, Amp)[1]).some
    /\ HasPrefix(s, KindPrefix)
    /\ out.e.kind = "NegOverflow"

\* C10: a part that matches none of the three prefixes never causes an error
\* and never changes the result: parsing a string with such a part inserted
\* or removed gives the outcome of parsing it without the edit.
C10_IgnoredParts ==
    (sFrom \in {"inserted", "removed"} /\ out # Pending) => out = prev

C10_Witness ==
    /\ sFrom = "inserted" /\ out # Pending /\ out = prev
    /\ out.tag = "Ok" /\ out.v.kind.some /\ out.v.created_after.some

\* where record i of an encoded buffer begins (an index from 0, as pos is)
RECURSIVE RecordOffset(_, _)
RecordOffset(rs, i) ==
    IF i = 1 THEN 2 + 32 ELSE RecordOffset(rs, i - 1) + 2 + Len(rs[i - 1])

EncodedBuffer == FromBase32(text.data).v

\* C11: as_bech32_string writes, for each relay, the type byte 1, the relay's
\* byte length truncated to 8 bits (length mod 256) and then all of the
\* relay's bytes; so for a relay of 256 bytes or more the length byte is not
\* the relay's length, and decoding the text does not give back the Profile.
C11_LengthTruncated ==
    textFrom = "as_bech32_string" =>
        LET buf == EncodedBuffer
            rs  == profile.relays
            n   == Len(rs)
        IN  /\ Len(buf) = RecordOffset(rs, n + 1)
            /\ \A i \in 1..n :
                  LET o == RecordOffset(rs, i)
                  IN  /\ buf[o + 1] = 1
                      /\ buf[o + 2] = Len(rs[i]) % 256
                      /\ SubSeq(buf, o + 3, o + 2 + Len(rs[i])) = rs[i]
                      /\ Len(rs[i]) >= 256 => buf[o + 2] # Len(rs[i])
            /\ (pc = "done" /\ \E i \in 1..n : Len(rs[i]) >= 256)
                  => result # Ok(profile)

\* a relay of 256 bytes is written with length byte 0 and the decoder
\* returns another Profile without an error
C11_Witness ==
    /\ textFrom = "as_bech32_string" /\ pc = "done"
    /\ Len(profile.relays) = 2
    /\ Len(profile.relays[2]) = 256
    /\ result.tag = "Ok"
    /\ result # Ok(profile)
    /\ Len(result.v.relays) = 4

\* the cursor is where the records read so far end, and each of them lies in
\* the buffer: its type byte, its length byte and its bytes
CursorFollowsRecords ==
    pc = "loop" =>
        /\ pos = RecordOffset(relays, Len(relays) + 1)
        /\ pos <= Len(tlv.v)
        /\ \A i \in 1..Len(relays) :
              LET o == RecordOffset(relays, i)
              IN  /\ o + 2 <= Len(tlv.v)
                  /\ tlv.v[o + 1] = 1
                  /\ tlv.v[o + 2] = Len(relays[i])
                  /\ SubSeq(tlv.v, o + 3, o + 2 + Len(relays[i])) = relays[i]

\* the loop returns a Profile only when fewer than two bytes remain
ReturnsWhenUnderTwoRemain ==
    (pc = "done" /\ result.tag = "Ok") => Len(tlv.v) - pos \in {0, 1}

\* a pass of the loop is made only with two bytes or more past the cursor,
\* and a pass that reads a record moves the cursor by 2 + its length byte,
\* not past the end
PassAdvances ==
    (pc = "loop" /\ pos' # pos) =>
        /\ Len(tlv.v) >= pos + 2
        /\ pc' = "loop" => /\ pos' = pos + 2 + tlv.v[pos + 2]
                           /\ pos' <= Len(tlv.v)
                           /\ Len(relays') = Len(relays) + 1

\* a buffer of complete records followed by one more byte decodes to the
\* Profile of the buffer without that byte
DanglingByteDropped ==
    (textFrom = "dangling" /\ pc = "done" /\ base.v.rest = 0)
        => result = base.v.result

\* C12: the decode loop reads another record only while at least 2 bytes
\* remain past the cursor, and each record advances the cursor by exactly
\* 2 + length without passing the end of the buffer; so a valid buffer
\* followed by exactly one dangling byte decodes to the same Profile as the
\* buffer without that byte.
C12_LoopCursor ==
    /\ [](CursorFollowsRecords /\ ReturnsWhenUnderTwoRemain /\ DanglingByteDropped)
    /\ [][PassAdvances]_vars

C12_Witness ==
    /\ textFrom = "dangling" /\ pc = "done" /\ base.v.rest = 0
    /\ result = base.v.result
    /\ Len(result.v.relays) = 2
    /\ Len(tlv.v) = pos + 1

====
